---- MODULE Spec2Model ----
(***************************************************************************)
(* Log-delivery subsystem of advanced-console-log: the ACL facade, the     *)
(* FileLogHandler (regular / async / async-queue delivery), the FileLogger *)
(* store with its write stream and rotation, and the WorkerHandler /       *)
(* logWorker message protocol.                                             *)
(*                                                                         *)
(* Scheduling model (Node.js): one action is one run-to-completion turn of *)
(* a thread: the synchronous code of a call or callback together with the  *)
(* promise continuations (microtasks) it makes runnable.  Timers, stream   *)
(* write completions, fs.promises completions and worker messages are      *)
(* separate turns and interleave freely.                                   *)
(*                                                                         *)
(* Records are numbered 1, 2, ... in the order of the leveled log calls    *)
(* that built them.                                                        *)
(***************************************************************************)
EXTENDS Integers, Sequences, FiniteSets, TLC

\* ---------------------------------------------------------------- bounds
MaxLogs == 3          \* leveled log calls made by the application
MaxWorkerLogs == 2    \* the same, when the mode is "worker"
MaxErrs == 3          \* error reports (errorHandler invocations)
QueueBatchSize == 2   \* config.queueBatchSize
RotateAt == 2         \* config.maxLogFileSizeMB, in record-sized units
MaxLogFiles == 1      \* config.maxLogFiles
MaxCloseWorkerCalls == 1   \* closeWorker() invocations
MaxFurtherCloseCalls == 1  \* closeWorker() invocations after those, on the channel alone
MaxFurtherLogs == 1        \* leveled log calls after MaxLogs, on the queue alone

\* ---------------------------------------------------------------- tokens
NL == 0               \* the "\n" flushQueue appends to a joined batch
ERR == -1             \* the record ACL.error builds for an errorHandler report
HDR == -2             \* the session header writeHeader puts on the stream

Modes == {"regular", "async", "async-queue", "worker"}
Methods == {"debug", "log", "info", "warn", "error", "fatal"}
Conditions == {"true", "false", "text"}   \* first argument of a leveled call

\* getInstance: instance names and configs. ACL.instance is a plain object, so
\* a lookup also finds what every object inherits from Object.prototype.
Names == {"default", "app", "constructor"}
PrototypeKeys == {"constructor"}
Configs == {"c1", "c2"}
Undefined == [id |-> 0, config |-> "none"]     \* no such property
Inherited == [id |-> -1, config |-> "none"]    \* a member of Object.prototype
NoCall == [name |-> "none", config |-> "none", result |-> Undefined]

VARIABLES
  \* ACL (facade)
  mode, logLevel, outputFileLogLevel, terminateOnFatal, enableExitHandlers,
  \* the size of the log file the constructor found (statSync)
  existingBytes,
  \* ACL (facade): references are TRUE when set, FALSE when null
  fileLogger, fileLogHandler, aclIsClosing, aclIsClosed, closeResolved,
  cflPc, nextId, gated, gatedAtClose,
  \* FileLogHandler
  logQueue, isFlushing, isShuttingDown, fhIsClosed, flushLoop, fhClose,
  accepted, payloads,
  \* FileLogger and its write stream
  currentFileSize, rotatedFiles, rotations, logStream, streamQ,
  streamErrored, asyncWrites,
  \* file system
  disk, fdName, fileBytes,
  \* error sink
  errorReports, thrown,
  \* WorkerHandler (main thread)
  worker, pendingMessages, closeSignalSent, whIsClosed, cwCalls, cwReady,
  cwWaitDrain, cwWaitClosed, cwTerminating, cwRejected, sent,
  sentBeforeClose, ackedAtMain, closePosts, closedReceived,
  \* message channel
  toWorker, toMain,
  \* logWorker (worker thread)
  workerAlive, wPendingMessages, closeSignalReceived, shutdownInProgress,
  wCloseWaiters, wShutdownWaiting, wReceived, processedPosted, closedPosted,
  \* ACL.close: a call made after an earlier one completed ran the body again
  closeReran,
  \* process: fatalAsync's setImmediate(process.exit) is scheduled; the process
  \* has exited
  exitPending, exited,
  \* tokens handed to the stream since the last successful rename
  appendedSinceRotation,
  \* ACL.flushFileLogs: the first call made in async-queue mode (none, pending,
  \* resolved) and the records enqueued before it
  fflPc,
  acceptedAtFlushCall,
  \* process: an exit handler (SIGINT, uncaughtException, unhandledRejection) ran
  signalled,
  \* ACL.instance (own properties), the config of the first getInstance call per name, and the last getInstance call with what it returned
  instance,
  firstConfig,
  lastCall

vars ==
  << mode, logLevel, outputFileLogLevel, terminateOnFatal, enableExitHandlers,
     existingBytes, fileLogger, fileLogHandler,
     aclIsClosing, aclIsClosed, closeResolved, cflPc, nextId, gated,
     gatedAtClose, logQueue, isFlushing, isShuttingDown, fhIsClosed,
     flushLoop, fhClose, accepted, payloads, currentFileSize, rotatedFiles,
     rotations, logStream, streamQ, streamErrored, asyncWrites, disk,
     fdName, fileBytes, errorReports, thrown, worker, pendingMessages,
     closeSignalSent, whIsClosed, cwCalls, cwReady, cwWaitDrain,
     cwWaitClosed, cwTerminating, cwRejected, sent, sentBeforeClose,
     ackedAtMain, closePosts, closedReceived, toWorker, toMain, workerAlive,
     wPendingMessages, closeSignalReceived, shutdownInProgress,
     wCloseWaiters, wShutdownWaiting, wReceived, processedPosted,
     closedPosted,
     closeReran,
     exitPending,
     exited,
     appendedSinceRotation,
     fflPc,
     acceptedAtFlushCall,
     signalled,
     instance,
     firstConfig,
     lastCall >>

\* The mutable state as one record, so that the synchronous call chains of the
\* source (log -> enqueueLog -> flushQueue -> write, errorHandler -> ACL.error
\* -> log ...) compose as functions.
Snap ==
  [ fileLogger |-> fileLogger,
    fileLogHandler |-> fileLogHandler,
    aclIsClosing |-> aclIsClosing,
    aclIsClosed |-> aclIsClosed,
    closeResolved |-> closeResolved,
    cflPc |-> cflPc,
    nextId |-> nextId,
    gated |-> gated,
    gatedAtClose |-> gatedAtClose,
    logQueue |-> logQueue,
    isFlushing |-> isFlushing,
    isShuttingDown |-> isShuttingDown,
    fhIsClosed |-> fhIsClosed,
    flushLoop |-> flushLoop,
    fhClose |-> fhClose,
    accepted |-> accepted,
    payloads |-> payloads,
    currentFileSize |-> currentFileSize,
    rotatedFiles |-> rotatedFiles,
    rotations |-> rotations,
    logStream |-> logStream,
    streamQ |-> streamQ,
    streamErrored |-> streamErrored,
    asyncWrites |-> asyncWrites,
    disk |-> disk,
    fdName |-> fdName,
    fileBytes |-> fileBytes,
    errorReports |-> errorReports,
    thrown |-> thrown,
    worker |-> worker,
    pendingMessages |-> pendingMessages,
    closeSignalSent |-> closeSignalSent,
    whIsClosed |-> whIsClosed,
    cwCalls |-> cwCalls,
    cwReady |-> cwReady,
    cwWaitDrain |-> cwWaitDrain,
    cwWaitClosed |-> cwWaitClosed,
    cwTerminating |-> cwTerminating,
    cwRejected |-> cwRejected,
    sent |-> sent,
    sentBeforeClose |-> sentBeforeClose,
    ackedAtMain |-> ackedAtMain,
    closePosts |-> closePosts,
    closedReceived |-> closedReceived,
    toWorker |-> toWorker,
    toMain |-> toMain,
    workerAlive |-> workerAlive,
    wPendingMessages |-> wPendingMessages,
    closeSignalReceived |-> closeSignalReceived,
    shutdownInProgress |-> shutdownInProgress,
    wCloseWaiters |-> wCloseWaiters,
    wShutdownWaiting |-> wShutdownWaiting,
    wReceived |-> wReceived,
    processedPosted |-> processedPosted,
    closedPosted |-> closedPosted,
    closeReran |-> closeReran,
    exitPending |-> exitPending,
    exited |-> exited,
    appendedSinceRotation |-> appendedSinceRotation,
    fflPc |-> fflPc,
    acceptedAtFlushCall |-> acceptedAtFlushCall,
    signalled |-> signalled,
    instance |-> instance,
    firstConfig |-> firstConfig,
    lastCall |-> lastCall ]

\* The next state is the record S. Nothing runs once the process has exited;
\* the other guard caps the model's counters.
Commit(S) ==
  /\ ~exited
  /\ S.errorReports <= MaxErrs
  /\ fileLogger' = S.fileLogger
  /\ fileLogHandler' = S.fileLogHandler
  /\ aclIsClosing' = S.aclIsClosing
  /\ aclIsClosed' = S.aclIsClosed
  /\ closeResolved' = S.closeResolved
  /\ cflPc' = S.cflPc
  /\ nextId' = S.nextId
  /\ gated' = S.gated
  /\ gatedAtClose' = S.gatedAtClose
  /\ logQueue' = S.logQueue
  /\ isFlushing' = S.isFlushing
  /\ isShuttingDown' = S.isShuttingDown
  /\ fhIsClosed' = S.fhIsClosed
  /\ flushLoop' = S.flushLoop
  /\ fhClose' = S.fhClose
  /\ accepted' = S.accepted
  /\ payloads' = S.payloads
  /\ currentFileSize' = S.currentFileSize
  /\ rotatedFiles' = S.rotatedFiles
  /\ rotations' = S.rotations
  /\ logStream' = S.logStream
  /\ streamQ' = S.streamQ
  /\ streamErrored' = S.streamErrored
  /\ asyncWrites' = S.asyncWrites
  /\ disk' = S.disk
  /\ fdName' = S.fdName
  /\ fileBytes' = S.fileBytes
  /\ errorReports' = S.errorReports
  /\ thrown' = S.thrown
  /\ worker' = S.worker
  /\ pendingMessages' = S.pendingMessages
  /\ closeSignalSent' = S.closeSignalSent
  /\ whIsClosed' = S.whIsClosed
  /\ cwCalls' = S.cwCalls
  /\ cwReady' = S.cwReady
  /\ cwWaitDrain' = S.cwWaitDrain
  /\ cwWaitClosed' = S.cwWaitClosed
  /\ cwTerminating' = S.cwTerminating
  /\ cwRejected' = S.cwRejected
  /\ sent' = S.sent
  /\ sentBeforeClose' = S.sentBeforeClose
  /\ ackedAtMain' = S.ackedAtMain
  /\ closePosts' = S.closePosts
  /\ closedReceived' = S.closedReceived
  /\ toWorker' = S.toWorker
  /\ toMain' = S.toMain
  /\ workerAlive' = S.workerAlive
  /\ wPendingMessages' = S.wPendingMessages
  /\ closeSignalReceived' = S.closeSignalReceived
  /\ shutdownInProgress' = S.shutdownInProgress
  /\ wCloseWaiters' = S.wCloseWaiters
  /\ wShutdownWaiting' = S.wShutdownWaiting
  /\ wReceived' = S.wReceived
  /\ processedPosted' = S.processedPosted
  /\ closedPosted' = S.closedPosted
  /\ closeReran' = S.closeReran
  /\ exitPending' = S.exitPending
  /\ exited' = S.exited
  /\ appendedSinceRotation' = S.appendedSinceRotation
  /\ fflPc' = S.fflPc
  /\ acceptedAtFlushCall' = S.acceptedAtFlushCall
  /\ signalled' = S.signalled
  /\ instance' = S.instance
  /\ firstConfig' = S.firstConfig
  /\ lastCall' = S.lastCall
  /\ UNCHANGED << mode, logLevel, outputFileLogLevel, terminateOnFatal,
                  enableExitHandlers, existingBytes >>

\* ------------------------------------------------------------ helpers
RemoveAt(s, i) == SubSeq(s, 1, i - 1) \o SubSeq(s, i + 1, Len(s))

RECURSIVE Flatten(_)
Flatten(ss) == IF ss = << >> THEN << >> ELSE Head(ss) \o Flatten(Tail(ss))

Range(s) == { s[i] : i \in 1..Len(s) }

Count(s, x) == Cardinality({ i \in 1..Len(s) : s[i] = x })

\* ------------------------------------------------- FileLogger (the store)
RECURSIVE ErrorHandler(_)
RECURSIVE EnforceRetention(_)

\* The stream the active writer appends to. In worker mode the writer is the
\* worker's own FileLogger, whose stream nothing ever ends; logStream is the
\* main-thread FileLogger's stream.
IsStreamOpen(S) == mode = "worker" \/ S.logStream = "open"

\* logStream.write(data, "utf8", cb): the chunk is buffered in the stream. A
\* write on an ended, null or destroyed stream can only fail (doomed).
PushWrite(S, data, origin, owner) ==
  [S EXCEPT !.streamQ = Append(@, [data |-> data, origin |-> origin,
                                   owner |-> owner,
                                   doomed |-> ~IsStreamOpen(S) \/ S.streamErrored]),
            !.appendedSinceRotation = @ + Len(data)]

\* fileSizeInMB >= this.maxLogFileSizeMB
RotationDue(S) == S.currentFileSize >= RotateAt

\* A rename that leaves the size counter as it was
RenameWithoutReset(S) ==
  LET new == S.rotations + 1 IN
  [S EXCEPT !.disk = (@ \ {0}) \cup {new},
            !.fdName = IF @ = 0 THEN new ELSE @,
            !.appendedSinceRotation = 0,
            !.rotatedFiles = Append(@, new),
            !.rotations = new]

\* A successful rename of outputFilename to the rotated name, and the state
\* update that follows it. The open stream keeps its descriptor: it now
\* points at the renamed file.
RenameAndReset(S) ==
  LET new == S.rotations + 1 IN
  [S EXCEPT !.disk = (@ \ {0}) \cup {new},
            !.fdName = IF @ = 0 THEN new ELSE @,
            !.currentFileSize = 0,
            !.appendedSinceRotation = 0,
            !.rotatedFiles = Append(@, new),
            !.rotations = new]

\* The leveled call ACL.error makes with an errorHandler message reaches the
\* file sink when level 3 passes the file gate.
ErrorGate == 3 >= outputFileLogLevel

\* writeToFile's catch when the failure persists (rename of a missing file):
\* errorHandler -> ACL.error -> FileLogHandler.log -> writeToFile -> the same
\* failure again. The recursion ends only by exhausting the call stack, and
\* the RangeError leaves through the catch blocks that are already running.
SyncWriteFailed(S) ==
  LET S1 == [S EXCEPT !.errorReports = @ + 1] IN
  IF S.fileLogger /\ S.fileLogHandler /\ ~S.fhIsClosed /\ ErrorGate
  THEN [S1 EXCEPT !.thrown = TRUE]
  ELSE S1

\* this.logStream.write(message) ; this._incrementFileSize(byteLength)
SyncStreamWrite(S, tok) ==
  IF S.logStream = "null"
  THEN SyncWriteFailed(S)
  ELSE [PushWrite(S, << tok >>, "sync", "none")
          EXCEPT !.currentFileSize = @ + 1]

\* A retention pass that deletes at most one file
EnforceRetentionOnce(S) ==
  IF Len(S.rotatedFiles) <= MaxLogFiles THEN S
  ELSE LET oldest == Head(S.rotatedFiles)
           S1 == [S EXCEPT !.rotatedFiles = Tail(@)]
       IN IF oldest \in S1.disk
          THEN [S1 EXCEPT !.disk = @ \ {oldest}]
          ELSE ErrorHandler(S1)

\* _enforceRetention
EnforceRetention(S) ==
  IF Len(S.rotatedFiles) <= MaxLogFiles THEN S
  ELSE LET oldest == Head(S.rotatedFiles)
           S1 == [S EXCEPT !.rotatedFiles = Tail(@)]
       IN IF oldest \in S1.disk
          THEN EnforceRetention([S1 EXCEPT !.disk = @ \ {oldest}])
          ELSE EnforceRetention(ErrorHandler(S1))

WriteToFile(S, tok) ==
  IF RotationDue(S)
  THEN IF 0 \notin S.disk
       THEN SyncWriteFailed(S)
       ELSE SyncStreamWrite(EnforceRetention(RenameAndReset(S)), tok)
  ELSE SyncStreamWrite(S, tok)

\* writeToFileAsync up to its first real suspension: with no rotation due the
\* awaits resolve within the turn and the chunk is handed to the stream; with
\* a rotation due the call waits for fs.promises.rename.
WriteToFileAsync(S, tok, owner) ==
  IF RotationDue(S)
  THEN [S EXCEPT !.asyncWrites =
          Append(@, [tok |-> tok, owner |-> owner, stage |-> "rename", victim |-> 0])]
  ELSE PushWrite(S, << tok >>, "async", owner)

\* ------------------------------------------------------- FileLogHandler
\* flushQueue's guard, and the guard without its isFlushing test
CanFlushIgnoringFlag(S) == ~S.fhIsClosed /\ Len(S.logQueue) > 0

CanFlush(S) == ~S.isFlushing /\ ~S.fhIsClosed /\ Len(S.logQueue) > 0

\* A join that loses the first queued record
JoinBatchDroppingHead(q) == Append(Tail(q), NL)

\* `${this.logQueue.join("")}\n`
JoinBatch(q) == Append(q, NL)

\* A flushQueue that leaves the captured records in the queue
FlushQueueKeepingQueue(S, owner) ==
  IF ~CanFlush(S) THEN S
  ELSE LET logData == JoinBatch(S.logQueue)
           S1 == [S EXCEPT !.isFlushing = TRUE,
                           !.payloads = Append(@, logData)]
       IN PushWrite(S1, logData, "flush", owner)

\* flushQueue up to the await of its write. owner is the caller that awaits
\* the returned promise ("enqueue" awaits nothing).
FlushQueue(S, owner) ==
  IF ~CanFlush(S) THEN S
  ELSE LET logData == JoinBatch(S.logQueue)
           S1 == [S EXCEPT !.isFlushing = TRUE, !.logQueue = << >>,
                           !.payloads = Append(@, logData)]
       IN PushWrite(S1, logData, "flush", owner)

\* An enqueueLog that flushes only past the batch size
EnqueueLogLateFlush(S, message) ==
  IF S.isShuttingDown \/ S.fhIsClosed THEN S
  ELSE LET S1 == [S EXCEPT !.logQueue = Append(@, message),
                           !.accepted = Append(@, message)]
       IN IF Len(S1.logQueue) > QueueBatchSize
          THEN FlushQueue(S1, "enqueue")
          ELSE S1

\* An enqueueLog without its guard
EnqueueLogUnguarded(S, message) ==
  LET S1 == [S EXCEPT !.logQueue = Append(@, message),
                      !.accepted = Append(@, message)]
  IN IF Len(S1.logQueue) >= QueueBatchSize
     THEN FlushQueue(S1, "enqueue")
     ELSE S1

EnqueueLog(S, message) ==
  IF S.isShuttingDown \/ S.fhIsClosed THEN S
  ELSE LET S1 == [S EXCEPT !.logQueue = Append(@, message),
                           !.accepted = Append(@, message)]
       IN IF Len(S1.logQueue) >= QueueBatchSize
          THEN FlushQueue(S1, "enqueue")
          ELSE S1

HandlerLog(S, message) ==
  IF S.fhIsClosed THEN S
  ELSE IF mode = "async" THEN WriteToFileAsync(S, message, "log")
  ELSE IF mode = "async-queue" THEN EnqueueLog(S, message)
  ELSE WriteToFile(S, message)

\* ------------------------------------------------------------------ ACL
LogWithFileLogger(S, message) ==
  IF S.fileLogHandler THEN HandlerLog(S, message) ELSE S

\* errorHandler. On the main thread it is (msg) => this.error(true, msg): a
\* console line and, through the file gate, one more record for the file
\* sink. In the worker the FileLogger is built with the default console.error.
ErrorHandler(S) ==
  LET S1 == [S EXCEPT !.errorReports = @ + 1] IN
  IF mode = "worker" THEN S1
  ELSE IF S1.fileLogger /\ ErrorGate THEN LogWithFileLogger(S1, ERR)
  ELSE S1

\* ------------------------------------------------------------ logWorker
PostToMain(S, msg) == [S EXCEPT !.toMain = Append(@, msg)]

\* parentPort.postMessage("closed")
SendClosedSignal(S) ==
  [PostToMain(S, [t |-> "closed", rec |-> 0]) EXCEPT !.closedPosted = @ + 1]

SendClosedSignalIfNeeded(S) ==
  IF S.closeSignalReceived /\ S.wPendingMessages = 0
  THEN SendClosedSignal(S)
  ELSE S

\* The payload branch of the message handler after its await of
\* fileLogger.writeToFileAsync(message) returns.
WorkerAfterWrite(S, rec) ==
  LET S1 == [S EXCEPT !.wPendingMessages = @ - 1]
      S2 == [PostToMain(S1, [t |-> "processed", rec |-> rec])
               EXCEPT !.processedPosted = Append(@, rec)]
  IN SendClosedSignalIfNeeded(S2)

\* --------------------------------------- ACL.closeFileLogger, second half
\* FileLogger.closeAsync: flushAsync does nothing (outputFileBatchOutput is
\* never set); the stream is ended and its "finish" awaited.
CloseAsync(S) ==
  IF S.logStream = "open"
  THEN [S EXCEPT !.logStream = "ending", !.cflPc = "awaitFinish"]
  ELSE [S EXCEPT !.fileLogger = FALSE, !.cflPc = "done"]

\* closeFileLogger after `await this.fileLogHandler.close()`
CloseFileLoggerRest(S) ==
  LET S1 == [S EXCEPT !.fileLogHandler = FALSE] IN
  IF S1.fileLogger THEN CloseAsync(S1) ELSE [S1 EXCEPT !.cflPc = "done"]

\* FileLogHandler.close after its last await: this.isClosed = true
FinishHandlerClose(S) ==
  CloseFileLoggerRest([S EXCEPT !.fhIsClosed = TRUE, !.fhClose = "done"])

\* FileLogHandler.close: `await this.flushQueue()`
HandlerCloseFinalFlush(S) ==
  IF CanFlush(S)
  THEN FlushQueue([S EXCEPT !.fhClose = "awaitFlush"], "close")
  ELSE FinishHandlerClose(S)

\* FileLogHandler.close up to its first suspension
HandlerClose(S) ==
  IF S.isShuttingDown \/ S.fhIsClosed THEN CloseFileLoggerRest(S)
  ELSE LET S1 == [S EXCEPT !.isShuttingDown = TRUE] IN
       IF S1.flushLoop \in {"delay", "flushing"}
       THEN [S1 EXCEPT !.fhClose = "awaitLoop"]
       ELSE HandlerCloseFinalFlush(S1)

\* A flushQueue whose finally block leaves isFlushing set
FlushQueueFinallyKeepingFlag(S, owner) ==
  IF owner = "loop" THEN [S EXCEPT !.flushLoop = "delay"]
  ELSE IF owner = "close" THEN FinishHandlerClose(S)
  ELSE IF owner = "facade" /\ S.fflPc = "pending"
  THEN [S EXCEPT !.fflPc = "resolved"]
  ELSE S

\* flushQueue's finally block, and the caller that awaited the flush
FlushQueueFinally(S, owner) ==
  LET S1 == [S EXCEPT !.isFlushing = FALSE] IN
  IF owner = "loop" THEN [S1 EXCEPT !.flushLoop = "delay"]
  ELSE IF owner = "close" THEN FinishHandlerClose(S1)
  ELSE IF owner = "facade" /\ S1.fflPc = "pending"
  THEN [S1 EXCEPT !.fflPc = "resolved"]
  ELSE S1

\* A flush whose failed batch is put back at the head of the queue
WriteSettledRequeueing(S, e, ok) ==
  IF e.origin = "flush"
  THEN LET S1 == IF ok THEN S
                 ELSE [ErrorHandler(ErrorHandler(S)) EXCEPT
                         !.logQueue = SelectSeq(e.data, LAMBDA r : r # NL) \o @]
       IN FlushQueueFinally(S1, e.owner)
  ELSE IF e.origin = "async"
  THEN LET S1 == IF ok THEN [S EXCEPT !.currentFileSize = @ + Len(e.data)]
                 ELSE ErrorHandler(ErrorHandler(S))
       IN IF e.owner = "worker" THEN WorkerAfterWrite(S1, e.data[1]) ELSE S1
  ELSE S

\* The callback of a stream write, and what resumes after it.
WriteSettled(S, e, ok) ==
  IF e.origin = "flush"
  THEN FlushQueueFinally(IF ok THEN S ELSE ErrorHandler(ErrorHandler(S)), e.owner)
  ELSE IF e.origin = "async"
  THEN LET S1 == IF ok THEN [S EXCEPT !.currentFileSize = @ + Len(e.data)]
                 ELSE ErrorHandler(ErrorHandler(S))
       IN IF e.owner = "worker" THEN WorkerAfterWrite(S1, e.data[1]) ELSE S1
  ELSE S

\* The stream's "error" event: the listener set in _initializeLogFileAndStream,
\* and the one _waitForStreamFinish adds while closeAsync awaits.
StreamErrorEvent(S) ==
  LET S1 == ErrorHandler(S) IN
  IF S1.cflPc = "awaitFinish"
  THEN [ErrorHandler(S1) EXCEPT !.fileLogger = FALSE, !.cflPc = "done"]
  ELSE S1

\* -------------------------------------------------- ACL: leveled calls
\* The level each leveled method passes to the gate.
GateLevel(method) ==
  CASE method = "debug" -> 1
    [] method = "log" -> 1
    [] method = "info" -> 1
    [] method = "warn" -> 2
    [] method = "error" -> 3
    [] method = "fatal" -> 3

ShouldLogToConsole(cond, level) ==
  IF cond = "false" THEN FALSE ELSE level >= logLevel

\* outputFilename is set in every configuration of this model
ShouldLogToFile(cond, level) ==
  IF cond = "false" THEN FALSE ELSE level >= outputFileLogLevel

\* WorkerHandler.logToWorker
LogToWorker(S, rec) ==
  IF S.worker
  THEN [S EXCEPT !.pendingMessages = @ + 1,
                 !.toWorker = IF S.workerAlive
                              THEN Append(@, [t |-> "log", rec |-> rec])
                              ELSE @,
                 !.sent = Append(@, rec)]
  ELSE S

LogWithColorAndCondition(S, method, cond) ==
  LET level == GateLevel(method)
      toConsole == ShouldLogToConsole(cond, level)
      toFile == S.fileLogger /\ ShouldLogToFile(cond, level)
      rec == S.nextId
      S1 == [S EXCEPT !.nextId = @ + 1,
                      !.gated = IF toFile THEN Append(@, rec) ELSE @]
  IN IF ~toConsole /\ ~toFile THEN S
     ELSE IF mode = "worker" THEN LogToWorker(S1, rec)
     ELSE IF toFile THEN LogWithFileLogger(S1, rec)
     ELSE S1

\* =================================================================== actions
\* ACL.close. Its first statement in the try block reads the identifier
\* includeMemoryUsage, which no scope declares (the field is
\* this.includeMemoryUsage): a ReferenceError. The catch block prints it, the
\* finally block resets isClosing, and the promise resolves; the flush, the
\* closeFileLogger and the closeWorker calls below it are never reached.
Close(S) ==
  IF S.aclIsClosing \/ S.aclIsClosed THEN S
  ELSE [S EXCEPT !.closeResolved = TRUE, !.gatedAtClose = S.gated,
                 !.closeReran = @ \/ S.closeResolved]

\* The tail of ACL.fatal and ACL.fatalAsync (the constructor aliases fatal to
\* fatalAsync in the async and async-queue modes): fatal calls
\* process.exit(1) at once; fatalAsync awaits close() and schedules
\* process.exit(0) with setImmediate.
TerminateOnFatal(S) ==
  IF ~terminateOnFatal THEN S
  ELSE IF mode \in {"async", "async-queue"}
  THEN [Close(S) EXCEPT !.exitPending = TRUE]
  ELSE [S EXCEPT !.exited = TRUE]

\* A leveled log call (debug/log/info/warn/error/fatal, or the Async variant
\* the constructor aliases to it: its body runs synchronously in the call).
LogCallResult(method, cond) ==
  LET S1 == LogWithColorAndCondition(Snap, method, cond) IN
  IF method = "fatal" THEN TerminateOnFatal(S1) ELSE S1

LogCallOf(method, cond) ==
  /\ nextId <= (IF mode = "worker" THEN MaxWorkerLogs ELSE MaxLogs)
  /\ Commit(LogCallResult(method, cond))

LogCall ==
  \E method \in Methods, cond \in Conditions : LogCallOf(method, cond)

\* The leveled calls the application makes after those, in async-queue mode
LogCallFurther ==
  /\ mode = "async-queue"
  /\ nextId > MaxLogs /\ nextId <= MaxLogs + MaxFurtherLogs
  /\ \E method \in Methods, cond \in Conditions :
       Commit(LogCallResult(method, cond))

\* The setImmediate callback of fatalAsync: process.exit(0)
ProcessExit ==
  /\ exitPending
  /\ Commit([Snap EXCEPT !.exited = TRUE, !.exitPending = FALSE])

\* The handlers _registerExitHandlers installs for SIGINT, uncaughtException
\* and unhandledRejection: this.close() is called and not awaited (its body
\* runs to its end within the call), then process.exit().
ExitSignal ==
  /\ enableExitHandlers
  /\ Commit([Close(Snap) EXCEPT !.exited = TRUE, !.signalled = TRUE])

\* ACL.flushFileLogs: `await this.fileLogHandler.flushQueue()`. A flushQueue
\* that returns at its guard resolves the call within the turn.
FlushFileLogs(S) ==
  IF mode \in {"async", "async-queue"}
  THEN LET S1 == FlushQueue(S, "facade") IN
       IF mode = "async-queue" /\ S.fflPc = "none"
       THEN [S1 EXCEPT !.fflPc = IF CanFlush(S) THEN "pending" ELSE "resolved",
                       !.acceptedAtFlushCall = S.accepted]
       ELSE S1
  ELSE S

AclFlushFileLogs ==
  /\ fileLogHandler
  /\ Commit(FlushFileLogs(Snap))

\* ACL.closeFileLogger, called by the application
AclCloseFileLogger ==
  /\ cflPc = "idle"
  /\ Commit(IF fileLogHandler THEN HandlerClose([Snap EXCEPT !.cflPc = "handler"])
            ELSE IF fileLogger THEN CloseAsync(Snap)
            ELSE [Snap EXCEPT !.cflPc = "done"])

\* ACL.close, called by the application
AclClose ==
  /\ ~aclIsClosing /\ ~aclIsClosed
  /\ Commit(Close(Snap))

\* A flush loop whose tick never flushes
FlushTimerIdle ==
  IF isShuttingDown
  THEN LET S1 == [Snap EXCEPT !.flushLoop = "done"] IN
       IF fhClose = "awaitLoop" THEN HandlerCloseFinalFlush(S1) ELSE S1
  ELSE Snap

\* setupAsyncQueueMode resumes after `await delay(this.flushInterval)`: the
\* state its turn leaves
FlushTimerResult ==
  IF isShuttingDown
  THEN LET S1 == [Snap EXCEPT !.flushLoop = "done"] IN
       IF fhClose = "awaitLoop" THEN HandlerCloseFinalFlush(S1) ELSE S1
  ELSE IF Len(logQueue) > 0 /\ CanFlush(Snap)
  THEN FlushQueue([Snap EXCEPT !.flushLoop = "flushing"], "loop")
  ELSE Snap

FlushTimer ==
  /\ flushLoop = "delay"
  /\ Commit(FlushTimerResult)

\* A buffered stream write completes, with or without an error. Chunks are
\* written in order; a failure destroys the stream, so every later chunk fails.
WriteCompleteGuard(i, ok) ==
  LET e == streamQ[i] IN
  /\ e.doomed \/ \A j \in 1..(i - 1) : streamQ[j].doomed
  /\ ok => ~(e.doomed \/ streamErrored)
  /\ mode = "worker" => workerAlive

WriteCompleteResult(i, ok) ==
  LET e == streamQ[i]
      S0 == [Snap EXCEPT !.streamQ = RemoveAt(@, i),
                         !.fileBytes = IF ok THEN @ \o e.data ELSE @,
                         !.streamErrored = @ \/ ~ok]
      S1 == WriteSettled(S0, e, ok)
  IN IF ~ok /\ ~streamErrored THEN StreamErrorEvent(S1) ELSE S1

WriteComplete ==
  \E i \in 1..Len(streamQ), ok \in BOOLEAN :
    /\ WriteCompleteGuard(i, ok)
    /\ Commit(WriteCompleteResult(i, ok))

\* The stream's "finish" event while closeAsync awaits it
StreamFinish ==
  /\ cflPc = "awaitFinish" /\ logStream = "ending" /\ ~streamErrored
  /\ mode = "worker" \/ \A j \in 1..Len(streamQ) : streamQ[j].doomed
  /\ Commit([Snap EXCEPT !.logStream = "null", !.fileLogger = FALSE,
                         !.cflPc = "done"])

\* _enforceRetentionAsync's loop head, then writeToFileAsync's stream write
ContinueAfterRotation(S, i) ==
  LET op == S.asyncWrites[i] IN
  IF Len(S.rotatedFiles) > MaxLogFiles
  THEN [S EXCEPT !.rotatedFiles = Tail(@),
                 !.asyncWrites[i].stage = "unlink",
                 !.asyncWrites[i].victim = Head(S.rotatedFiles)]
  ELSE PushWrite([S EXCEPT !.asyncWrites = RemoveAt(@, i)],
                 << op.tok >>, "async", op.owner)

\* fs.promises.rename of _rotateFilesAsync settles
RenameCompleteResult(i) ==
  LET op == asyncWrites[i] IN
  IF 0 \in disk
  THEN ContinueAfterRotation(RenameAndReset(Snap), i)
  ELSE LET S1 == ErrorHandler(Snap) IN
       PushWrite([S1 EXCEPT !.asyncWrites = RemoveAt(@, i)],
                 << op.tok >>, "async", op.owner)

RenameComplete ==
  \E i \in 1..Len(asyncWrites) :
    /\ asyncWrites[i].stage = "rename"
    /\ mode = "worker" => workerAlive
    /\ Commit(RenameCompleteResult(i))

\* fs.promises.unlink of _enforceRetentionAsync settles
UnlinkCompleteResult(i) ==
  LET op == asyncWrites[i] IN
  ContinueAfterRotation(
    IF op.victim \in disk
    THEN [Snap EXCEPT !.disk = @ \ {op.victim}]
    ELSE ErrorHandler(Snap), i)

UnlinkComplete ==
  \E i \in 1..Len(asyncWrites) :
    /\ asyncWrites[i].stage = "unlink"
    /\ mode = "worker" => workerAlive
    /\ Commit(UnlinkCompleteResult(i))

\* ------------------------------------------------ WorkerHandler actions
\* closeWorker after waitForPendingMessages resolved
CloseWorkerPostClose(S) ==
  IF S.worker
  THEN [S EXCEPT !.whIsClosed = FALSE,
                 !.toWorker = Append(@, [t |-> "close", rec |-> 0]),
                 !.closePosts = @ + 1,
                 !.cwWaitClosed = @ + 1]
  ELSE S

RECURSIVE ResumeDrainWaiters(_)
ResumeDrainWaiters(S) ==
  IF S.cwWaitDrain = 0 THEN S
  ELSE ResumeDrainWaiters(CloseWorkerPostClose([S EXCEPT !.cwWaitDrain = @ - 1]))

\* A closeWorker() that does not wait for the drain
CloseWorkerStartNoDrainWait(S) ==
  [S EXCEPT !.closeSignalSent = TRUE,
            !.cwCalls = @ + 1,
            !.sentBeforeClose = IF S.cwCalls = 0 THEN Range(S.sent) ELSE @,
            !.cwReady = @ + 1]
\* closeWorker(), up to the await of waitForPendingMessages(): the promise
\* is already resolved when pendingMessages is 0, else it waits for "drain".
CloseWorkerStart(S) ==
  LET S1 == [S EXCEPT !.closeSignalSent = TRUE,
                      !.cwCalls = @ + 1,
                      !.sentBeforeClose = IF S.cwCalls = 0 THEN Range(S.sent) ELSE @]
  IN IF S1.pendingMessages = 0
     THEN [S1 EXCEPT !.cwReady = @ + 1]
     ELSE [S1 EXCEPT !.cwWaitDrain = @ + 1]

CloseWorkerCall ==
  /\ mode = "worker" /\ cwCalls < MaxCloseWorkerCalls
  /\ Commit(CloseWorkerStart(Snap))

\* A further closeWorker() call, while an earlier one runs or after it
CloseWorkerCallAgain ==
  /\ mode = "worker"
  /\ cwCalls >= MaxCloseWorkerCalls
  /\ cwCalls < MaxCloseWorkerCalls + MaxFurtherCloseCalls
  /\ Commit(CloseWorkerStart(Snap))

\* closeWorker resumes after waitForPendingMessages() resolved at once
CloseWorkerResume ==
  /\ cwReady > 0
  /\ Commit(CloseWorkerPostClose([Snap EXCEPT !.cwReady = @ - 1]))

\* A handleWorkerMessage that leaves pendingMessages alone on "processed"
MainReceiveResultNoDecrement ==
  LET msg == Head(toMain)
      S0 == [Snap EXCEPT !.toMain = Tail(@)]
  IN IF msg.t = "processed"
     THEN LET S1 == [S0 EXCEPT !.ackedAtMain = @ \cup {msg.rec}]
          IN IF S1.pendingMessages = 0 /\ S1.closeSignalSent
             THEN ResumeDrainWaiters(S1)
             ELSE S1
     ELSE LET S1 == [S0 EXCEPT !.whIsClosed = TRUE,
                               !.closedReceived = @ + 1]
          IN IF S1.worker
             THEN [S1 EXCEPT !.cwTerminating = @ + S1.cwWaitClosed,
                             !.cwWaitClosed = 0]
             ELSE [S1 EXCEPT !.cwRejected = @ \/ (S1.cwWaitClosed > 0),
                             !.cwWaitClosed = 0]

\* handleWorkerMessage, with the closeWorker continuations its events resume
MainReceiveResult ==
  LET msg == Head(toMain)
      S0 == [Snap EXCEPT !.toMain = Tail(@)]
  IN IF msg.t = "processed"
     THEN LET S1 == [S0 EXCEPT !.pendingMessages = @ - 1,
                               !.ackedAtMain = @ \cup {msg.rec}]
          IN IF S1.pendingMessages = 0 /\ S1.closeSignalSent
             THEN ResumeDrainWaiters(S1)
             ELSE S1
     ELSE LET S1 == [S0 EXCEPT !.whIsClosed = TRUE,
                               !.closedReceived = @ + 1]
          IN IF S1.worker
             THEN [S1 EXCEPT !.cwTerminating = @ + S1.cwWaitClosed,
                             !.cwWaitClosed = 0]
             ELSE [S1 EXCEPT !.cwRejected = @ \/ (S1.cwWaitClosed > 0),
                             !.cwWaitClosed = 0]

MainReceive ==
  /\ toMain # << >>
  /\ Commit(MainReceiveResult)

\* worker.terminate() takes effect: the worker thread stops
\* The thread's event loop is gone: its unread messages and the callbacks of
\* its pending I/O never run; any prefix of the chunks already handed to the
\* stream may still reach the file.
WorkerExit ==
  /\ cwTerminating > 0 /\ workerAlive
  /\ \E k \in 0..Len(streamQ) :
       /\ k > 0 => ~streamErrored
       /\ Commit([Snap EXCEPT !.workerAlive = FALSE,
                              !.fileBytes = @ \o Flatten([j \in 1..k |-> streamQ[j].data]),
                              !.streamQ = << >>,
                              !.asyncWrites = << >>,
                              !.toWorker = << >>])

\* The worker thread ends without having been asked to (process.exit in the
\* thread, resource exhaustion). _initializeWorker listens for "exit" and
\* "error" only when this.debug is set, which nothing sets: the main thread
\* is told nothing.
WorkerCrash ==
  /\ mode = "worker" /\ workerAlive /\ cwTerminating = 0
  /\ \E k \in 0..Len(streamQ) :
       /\ k > 0 => ~streamErrored
       /\ Commit([Snap EXCEPT !.workerAlive = FALSE,
                              !.fileBytes = @ \o Flatten([j \in 1..k |-> streamQ[j].data]),
                              !.streamQ = << >>,
                              !.asyncWrites = << >>,
                              !.toWorker = << >>])

\* closeWorker after `await this.worker.terminate()`: this.worker = null
CloseWorkerDone ==
  /\ cwTerminating > 0 /\ ~workerAlive
  /\ Commit([Snap EXCEPT !.worker = FALSE, !.cwTerminating = 0])

\* ---------------------------------------------------- logWorker actions
\* parentPort.on("message"), up to its first suspension
WorkerReceiveResult ==
  LET msg == Head(toWorker)
      S0 == [Snap EXCEPT !.toWorker = Tail(@)]
  IN IF msg.t = "close"
     THEN LET S1 == [S0 EXCEPT !.closeSignalReceived = TRUE] IN
          IF S1.wPendingMessages = 0
          THEN SendClosedSignal(S1)
          ELSE [S1 EXCEPT !.wCloseWaiters = @ + 1]
     ELSE WriteToFileAsync([S0 EXCEPT !.wPendingMessages = @ + 1,
                                      !.wReceived = Append(@, msg.rec)],
                           msg.rec, "worker")

WorkerReceive ==
  /\ workerAlive /\ toWorker # << >>
  /\ Commit(WorkerReceiveResult)

\* A setImmediate tick of flushPendingMessagesAndExit that finds
\* pendingMessages = 0: the loop ends and its caller sends "closed".
WorkerFlushPoll ==
  /\ workerAlive /\ wPendingMessages = 0
  /\ \/ /\ wCloseWaiters > 0
        /\ Commit(SendClosedSignal([Snap EXCEPT !.wCloseWaiters = @ - 1]))
     \/ /\ wShutdownWaiting
        /\ Commit(SendClosedSignal([Snap EXCEPT !.wShutdownWaiting = FALSE]))

\* handleShutdown, on the worker's uncaughtException / unhandledRejection
WorkerUncaughtError ==
  /\ mode = "worker" /\ workerAlive /\ ~shutdownInProgress
  /\ Commit(LET S1 == [Snap EXCEPT !.shutdownInProgress = TRUE] IN
            IF wPendingMessages = 0
            THEN SendClosedSignal(S1)
            ELSE [S1 EXCEPT !.wShutdownWaiting = TRUE])

\* ------------------------------------------------------------- the system
LogLevelChoices == {1}
FileLevelChoices == {2}
\* The size of the existing log file; batched mode is also started on a file
\* that is already at the threshold.
InitialSizes == {1}

\* Without terminateOnFatal a fatal call is an error call (same gate level),
\* so every behaviour of that configuration is one of this one.
TerminateOnFatalChoices == {TRUE}

\* The configurations run with enableExitHandlers: true
ExitHandlerModes == {"regular", "async", "async-queue"}

\* What _initializeRotatedFilesCache reads from the directory: the active file
\* (name 0: it starts with the base name and ends with ".log"), alone or after
\* a file rotated by an earlier run (name -1). Files rotated by this run are
\* named 1, 2, ... in rotation order.
InitialCaches == { << 0 >>, << -1, 0 >> }

\* The state the constructor leaves, for any pair of thresholds. The open
\* that fs.createWriteStream schedules has run: the stream's descriptor is
\* open on outputFilename (fdName = 0) and the header the constructor wrote
\* has reached the file. fileBytes is what this run has appended; the size
\* the constructor cached is the one statSync saw before those bytes landed.
\* The worker's store is configured with writeHeader: false.
Constructed ==
  /\ mode \in Modes
  /\ terminateOnFatal \in TerminateOnFatalChoices
  /\ enableExitHandlers = (mode \in ExitHandlerModes)
  /\ fileLogger = TRUE /\ fileLogHandler = TRUE
  /\ aclIsClosing = FALSE /\ aclIsClosed = FALSE /\ closeResolved = FALSE
  /\ cflPc = "idle" /\ nextId = 1 /\ gated = << >> /\ gatedAtClose = << >>
  /\ logQueue = << >> /\ isFlushing = FALSE /\ isShuttingDown = FALSE
  /\ fhIsClosed = FALSE
  /\ flushLoop = IF mode = "async-queue" THEN "delay" ELSE "none"
  /\ fhClose = "idle" /\ accepted = << >> /\ payloads = << >>
  /\ existingBytes \in (IF mode = "async-queue"
                       THEN InitialSizes \cup {RotateAt}
                       ELSE InitialSizes)
  /\ currentFileSize = existingBytes
  /\ rotatedFiles \in InitialCaches /\ rotations = 0 /\ logStream = "open"
  /\ streamQ = << >> /\ streamErrored = FALSE /\ asyncWrites = << >>
  /\ disk = Range(rotatedFiles) /\ fdName = 0
  /\ fileBytes = IF mode = "worker" THEN << >> ELSE << HDR >>
  /\ errorReports = 0 /\ thrown = FALSE
  /\ worker = (mode = "worker") /\ pendingMessages = 0
  /\ closeSignalSent = FALSE /\ whIsClosed = FALSE
  /\ cwCalls = 0 /\ cwReady = 0 /\ cwWaitDrain = 0 /\ cwWaitClosed = 0
  /\ cwTerminating = 0 /\ cwRejected = FALSE
  /\ sent = << >> /\ sentBeforeClose = {} /\ ackedAtMain = {}
  /\ closePosts = 0 /\ closedReceived = 0
  /\ toWorker = << >> /\ toMain = << >>
  /\ workerAlive = (mode = "worker") /\ wPendingMessages = 0
  /\ closeSignalReceived = FALSE /\ shutdownInProgress = FALSE
  /\ wCloseWaiters = 0 /\ wShutdownWaiting = FALSE
  /\ wReceived = << >> /\ processedPosted = << >> /\ closedPosted = 0
  /\ closeReran = FALSE
  /\ exitPending = FALSE
  /\ exited = FALSE
  /\ appendedSinceRotation = 0
  /\ fflPc = "none"
  /\ acceptedAtFlushCall = << >>
  /\ signalled = FALSE
  /\ instance = [n \in Names |-> Undefined]
  /\ firstConfig = [n \in Names |-> "none"]
  /\ lastCall = NoCall

Init ==
  /\ logLevel \in LogLevelChoices
  /\ outputFileLogLevel \in FileLevelChoices
  /\ Constructed

Next ==
  \/ LogCall
  \/ ProcessExit
  \/ ExitSignal
  \/ AclFlushFileLogs
  \/ AclCloseFileLogger
  \/ AclClose
  \/ FlushTimer
  \/ WriteComplete
  \/ StreamFinish
  \/ RenameComplete
  \/ UnlinkComplete
  \/ CloseWorkerCall
  \/ CloseWorkerResume
  \/ MainReceive
  \/ WorkerExit
  \/ WorkerCrash
  \/ CloseWorkerDone
  \/ WorkerReceive
  \/ WorkerFlushPoll
  \/ WorkerUncaughtError

Spec == Init /\ [][Next]_vars

\* The async-queue configuration alone, started on a log file below the
\* rotation threshold with no rotated file beside it, with the scheduling the
\* event loop guarantees: a timer that is due fires, and a write handed to
\* the stream settles.
QueueInit ==
  /\ Init
  /\ mode = "async-queue"
  /\ existingBytes < RotateAt
  /\ rotatedFiles = << 0 >>

QueueNext ==
  \/ LogCall
  \/ LogCallFurther
  \/ ProcessExit
  \/ ExitSignal
  \/ AclFlushFileLogs
  \/ AclCloseFileLogger
  \/ AclClose
  \/ FlushTimer
  \/ WriteComplete
  \/ StreamFinish

\* Commit(S) can take a step that changes the state
CanCommit(S) == ~exited /\ S.errorReports <= MaxErrs /\ S # Snap

\* ENABLED <<FlushTimer>>_vars and ENABLED <<WriteComplete>>_vars
FlushTimerEnabled == flushLoop = "delay" /\ CanCommit(FlushTimerResult)

WriteCompleteEnabled ==
  \E i \in 1..Len(streamQ), ok \in BOOLEAN :
    WriteCompleteGuard(i, ok) /\ CanCommit(WriteCompleteResult(i, ok))

\* WF_vars(FlushTimer) and WF_vars(WriteComplete), each written out by the
\* definition of WF with the action's enabling condition above
QueueFairness ==
  /\ []<>(~FlushTimerEnabled) \/ []<><<FlushTimer>>_vars
  /\ []<>(~WriteCompleteEnabled) \/ []<><<WriteComplete>>_vars

QueueSpec == QueueInit /\ [][QueueNext]_vars /\ QueueFairness

\* The worker channel alone (WorkerHandler and logWorker), started on a log
\* file below the rotation threshold with no rotated file beside it, for a
\* worker thread that keeps running until it is terminated. The event loops
\* of both threads deliver every posted message, run every continuation that
\* is ready and settle every file operation.
WorkerInit ==
  /\ Init
  /\ mode = "worker"
  /\ rotatedFiles = << 0 >>

WorkerNext ==
  \/ LogCall
  \/ CloseWorkerCall
  \/ CloseWorkerCallAgain
  \/ CloseWorkerResume
  \/ MainReceive
  \/ WorkerExit
  \/ CloseWorkerDone
  \/ WorkerReceive
  \/ WorkerFlushPoll
  \/ WorkerUncaughtError
  \/ WriteComplete
  \/ RenameComplete
  \/ UnlinkComplete

\* ENABLED <<A>>_vars for the actions whose turn runs a store operation
WorkerReceiveEnabled ==
  workerAlive /\ toWorker # << >> /\ CanCommit(WorkerReceiveResult)

RenameCompleteEnabled ==
  \E i \in 1..Len(asyncWrites) :
    /\ asyncWrites[i].stage = "rename"
    /\ mode = "worker" => workerAlive
    /\ CanCommit(RenameCompleteResult(i))

UnlinkCompleteEnabled ==
  \E i \in 1..Len(asyncWrites) :
    /\ asyncWrites[i].stage = "unlink"
    /\ mode = "worker" => workerAlive
    /\ CanCommit(UnlinkCompleteResult(i))

\* Weak fairness of every turn the two event loops run; for the four actions
\* above, WF_vars(A) is written out by its definition with the enabling
\* condition.
WorkerFairness ==
  /\ WF_vars(CloseWorkerResume)
  /\ WF_vars(MainReceive)
  /\ WF_vars(WorkerExit)
  /\ WF_vars(CloseWorkerDone)
  /\ WF_vars(WorkerFlushPoll)
  /\ []<>(~WorkerReceiveEnabled) \/ []<><<WorkerReceive>>_vars
  /\ []<>(~WriteCompleteEnabled) \/ []<><<WriteComplete>>_vars
  /\ []<>(~RenameCompleteEnabled) \/ []<><<RenameComplete>>_vars
  /\ []<>(~UnlinkCompleteEnabled) \/ []<><<UnlinkComplete>>_vars

WorkerSpec == WorkerInit /\ [][WorkerNext]_vars /\ WorkerFairness

\* ACL.instance[name]
Lookup(S, name) ==
  IF S.instance[name] # Undefined THEN S.instance[name]
  ELSE IF name \in PrototypeKeys THEN Inherited
  ELSE Undefined

\* ACL.getInstance(config, name)
GetInstance(S, config, name) ==
  LET created == [id |-> Cardinality({ n \in Names : S.instance[n] # Undefined }) + 1,
                  config |-> config]
      found == Lookup(S, name)
  IN [S EXCEPT !.instance = IF found = Undefined THEN [@ EXCEPT ![name] = created]
                            ELSE @,
               !.firstConfig = IF @[name] = "none" THEN [@ EXCEPT ![name] = config]
                               ELSE @,
               !.lastCall = [name |-> name, config |-> config,
                             result |-> IF found = Undefined THEN created ELSE found]]

GetInstanceCall ==
  \E config \in Configs, name \in Names : Commit(GetInstance(Snap, config, name))

\* The instance registry alone: getInstance calls in any order
RegistrySpec == Init /\ [][GetInstanceCall]_vars

\* The gate alone, over every threshold the configuration accepts: log calls
\* on a freshly constructed logger.
Thresholds == 0..5

GateInit ==
  /\ logLevel \in Thresholds
  /\ outputFileLogLevel \in Thresholds
  /\ Constructed

GateNext == LogCall

GateSpec == GateInit /\ [][GateNext]_vars

\* ==================================================================== claims
UserRecords(s) == SelectSeq(s, LAMBDA r : r > 0)

\* C1: in every delivery mode, once the facade's close() has resolved, every
\* record whose log call passed the file gate and returned before close() was
\* invoked is in the log file exactly once.
AllGatedRecordsAppendedOnceAfterClose ==
  closeResolved =>
    \A i \in 1..Len(gatedAtClose) : Count(fileBytes, gatedAtClose[i]) = 1

\* C2: the records appended to the file appear in the order of the log calls
\* that made them, also across batches and when a rotation starts while
\* asynchronous writes are pending.
FileKeepsCallOrder ==
  LET recs == UserRecords(fileBytes) IN
  \A i \in 1..Len(recs), j \in 1..Len(recs) : i < j => recs[i] < recs[j]

\* C3: in async-queue mode, when FileLogHandler.close() sets isClosed the queue
\* is empty and every record enqueueLog accepted has been handed to the store
\* in some batch payload.
QueueDrainedWhenHandlerClosed ==
  (mode = "async-queue" /\ fhIsClosed) =>
    /\ logQueue = << >>
    /\ \A i \in 1..Len(accepted) : Count(Flatten(payloads), accepted[i]) >= 1

\* C4: in async-queue mode, whenever the queue is empty and no flush is in
\* progress, the batch payloads written so far, concatenated in write order
\* (each batch's closing newline aside), are the accepted records in enqueue
\* order, each exactly once.
PayloadsEqualAcceptedWhenIdle ==
  (mode = "async-queue" /\ logQueue = << >> /\ ~isFlushing) =>
    SelectSeq(Flatten(payloads), LAMBDA r : r # NL) = accepted

\* Two batches have been written, the second one started by another path than
\* the first, and the handler is idle with every accepted record flushed.
PayloadsEqualAcceptedWitness ==
  /\ mode = "async-queue" /\ logQueue = << >> /\ ~isFlushing
  /\ Len(payloads) >= 2 /\ Len(accepted) = MaxLogs

\* C5: in async-queue mode at most one flushQueue invocation has its write in
\* flight at any time.
FlushWritesInFlight == { i \in 1..Len(streamQ) : streamQ[i].origin = "flush" }

AtMostOneFlushInFlight ==
  mode = "async-queue" => Cardinality(FlushWritesInFlight) <= 1

\* A flush has its write in flight while more records wait in the queue and
\* close has been requested: every further flushQueue call must step aside.
AtMostOneFlushWitness ==
  /\ mode = "async-queue" /\ Cardinality(FlushWritesInFlight) = 1
  /\ isFlushing /\ Len(logQueue) > 0 /\ isShuttingDown

\* C6: in worker mode every record sent before closeWorker() was invoked has
\* been acknowledged with "processed" before "close" is posted, and, when the
\* worker's fault handler has not run, before "closed" is received.
DrainBeforeClose ==
  /\ closePosts > 0 => sentBeforeClose \subseteq ackedAtMain
  /\ (closedReceived > 0 /\ ~shutdownInProgress) =>
       (closePosts > 0 /\ sentBeforeClose \subseteq ackedAtMain)

\* closeWorker() was invoked with records unacknowledged, waited for the drain,
\* posted "close" and received "closed".
DrainBeforeCloseWitness ==
  /\ Cardinality(sentBeforeClose) = MaxWorkerLogs
  /\ closePosts > 0 /\ closedReceived > 0 /\ ~shutdownInProgress

\* C7: WorkerHandler.isClosed implies that closeWorker() was requested, that
\* pendingMessages is 0 and that a "closed" message was received. The claim
\* asks this of every reachable state; it is stated here for the states in
\* which the worker's fault handler has not run, a part of them.
ClosedOnlyWhenDrained ==
  (whIsClosed /\ ~shutdownInProgress) =>
    (closeSignalSent /\ pendingMessages = 0 /\ closedReceived > 0)

\* C8: a "processed" message is posted at most once per payload received, and
\* only for a payload that has been appended to the worker's file.
ProcessedMeansAppended ==
  \A i \in 1..Len(processedPosted) :
    /\ Count(processedPosted, processedPosted[i]) = 1
    /\ Count(wReceived, processedPosted[i]) = 1
    /\ Count(fileBytes, processedPosted[i]) = 1

\* C9: the worker posts "closed" at most once in its lifetime. The claim asks
\* this of every interleaving, the error-triggered shutdown included; it is
\* stated here for the runs in which that shutdown never starts.
ClosedPostedAtMostOnce == ~shutdownInProgress => closedPosted <= 1

\* C10: when the facade's close() has resolved, its steps have run: the
\* delivery handler is closed, the file store is closed, the worker channel is
\* closed (worker mode), and isClosed is set.
CloseRanItsSteps ==
  closeResolved =>
    /\ aclIsClosed
    /\ fhIsClosed /\ ~fileLogHandler
    /\ ~fileLogger
    /\ mode = "worker" => ~worker

\* C11: when a step of the facade's close() has failed and close() has
\* resolved, the later steps have been attempted all the same: the handler's
\* close was called, closeFileLogger ran, and in worker mode closeWorker was
\* called.
CloseFailureLeavesLaterStepsAttempted ==
  closeResolved =>
    /\ isShuttingDown
    /\ cflPc # "idle"
    /\ mode = "worker" => closeSignalSent

ExitOnlyAfterClose == exited => closeResolved

\* C14: no I/O failure is thrown out of a leveled log call: the call reports
\* the failure through the error callback and returns normally.
LogCallNeverThrows == ~thrown

\* The level numbers of src/docs/log-levels.md
DocumentedLevel(method) ==
  CASE method = "debug" -> 0
    [] method = "log" -> 1
    [] method = "info" -> 2
    [] method = "warn" -> 3
    [] method = "error" -> 4
    [] method = "fatal" -> 5

\* C15: with the documented level numbers and every threshold 0..5, a call is
\* handed to the file path iff its level is at least outputFileLogLevel and
\* its condition is not false, and it is handled at all (console or file) iff
\* that holds or its level is at least logLevel and its condition is not
\* false; the two decisions do not influence each other.
DocumentedLevelsGateDelivery ==
  [][\A method \in Methods, cond \in Conditions :
       LogCallOf(method, cond) =>
         LET level == DocumentedLevel(method)
             toConsole == cond # "false" /\ level >= logLevel
             toFile == cond # "false" /\ level >= outputFileLogLevel
         IN /\ (Len(gated') > Len(gated)) <=> toFile
            /\ (nextId' > nextId) <=> (toConsole \/ toFile)]_vars

\* C16: with synchronous appends (regular mode), the append that finds the
\* size at or past the threshold rotates once before it writes, so the size
\* never passes the threshold by more than the record that crossed it, and
\* after the rotation currentFileSize is the total size of exactly the records
\* appended since the rotation.
SyncRotationCountsOnlyLaterRecords ==
  mode = "regular" =>
    /\ currentFileSize <= RotateAt
    /\ rotations >= 1 => currentFileSize = appendedSinceRotation

SyncRotationWitness ==
  /\ mode = "regular" /\ ~thrown
  /\ rotations = 1
  /\ appendedSinceRotation >= 1
  /\ currentFileSize = appendedSinceRotation

\* C17: asynchronous appends issued one after another that all find the size
\* at or past the threshold attempt the rotation once: no two renames of the
\* active file are ever in flight together.
RotationAttemptedOnce ==
  Cardinality({ i \in 1..Len(asyncWrites) : asyncWrites[i].stage = "rename" }) <= 1

\* C18: after every rotation a fresh file exists at the original path and the
\* stream appends to that file, not to the renamed one.
FreshFileAfterRotation == rotations >= 1 => (0 \in disk /\ fdName = 0)

\* C19: whenever a rotation has completed (its rename and its retention pass,
\* synchronous or asynchronous, are over), rotatedFiles holds at most
\* maxLogFiles names, whatever the directory held at construction.
RetentionPending ==
  \E i \in 1..Len(asyncWrites) : asyncWrites[i].stage = "unlink"

RetentionBoundAfterRotation ==
  (rotations >= 1 /\ ~RetentionPending /\ (mode = "worker" => workerAlive)) =>
    Len(rotatedFiles) <= MaxLogFiles

RetentionBoundWitness ==
  /\ mode = "async" /\ rotations = 1 /\ ~RetentionPending
  /\ -1 \notin disk
  /\ Len(rotatedFiles) = MaxLogFiles

\* C20: rotatedFiles holds only names of rotated files, oldest first, and a
\* retention delete never targets the active log file (name 0) nor the file
\* rotated last.
RotatedFilesOldestFirst ==
  /\ 0 \notin Range(rotatedFiles)
  /\ \A i, j \in 1..Len(rotatedFiles) : i < j => rotatedFiles[i] < rotatedFiles[j]
  /\ \A i \in 1..Len(asyncWrites) :
       asyncWrites[i].stage = "unlink" => asyncWrites[i].victim \notin {0, rotations}

\* The bytes in the file at outputFilename while no rotation has moved it:
\* what was there at construction and what the stream has appended since.
ActiveFileBytes == existingBytes + Len(fileBytes)

\* No append is in flight and none has failed
AppendsCompleted ==
  /\ streamQ = << >> /\ asyncWrites = << >>
  /\ ~streamErrored /\ ~thrown
  /\ mode = "worker" \/ logStream = "open"
  /\ mode = "worker" => workerAlive

\* C21: whenever the appends issued so far have completed, currentFileSize is
\* the number of bytes in the active log file (checked up to the first
\* rotation, while the active file is the one the stream writes).
SizeCacheMatchesFile ==
  (rotations = 0 /\ AppendsCompleted) => currentFileSize = ActiveFileBytes

\* C22: in the modes that write through the main-thread store, a step hands
\* bytes to the stream only if the size it found was below the threshold or
\* it rotated first.
AppendsFollowRotationCheck ==
  [][(mode # "worker" /\ rotations' = rotations
        /\ appendedSinceRotation' > appendedSinceRotation)
       => ~RotationDue(Snap)]_vars

\* C23: in async-queue mode, once flushFileLogs() has resolved and no write
\* has failed, every record enqueued before the call is in the file.
FlushFileLogsWritesEarlierRecords ==
  (fflPc = "resolved" /\ ~streamErrored) =>
    \A i \in 1..Len(acceptedAtFlushCall) :
      acceptedAtFlushCall[i] \in Range(fileBytes)

\* C24: a closeWorker() that is waiting (for "drain" or for "closed") can still
\* be resumed: the worker is running or a message from it is yet to be
\* handled. A dead worker does not strand the call.
CloseWorkerNotStranded ==
  (cwWaitDrain > 0 \/ cwWaitClosed > 0) => (workerAlive \/ toMain # << >>)

\* C25: with enableExitHandlers, when a signal or an uncaught error ends the
\* process, every record accepted for the file before it has been written.
ExitHandlersFlushBeforeExit ==
  signalled => \A i \in 1..Len(gated) : gated[i] \in Range(fileBytes)

\* C26: every closeAsync() of the store resolves: while a call awaits the
\* stream's "finish", the stream is one that can still emit it (or emit the
\* "error" that rejects the wait); a call on a stream that has already failed
\* is not left waiting.
CloseAsyncNotStranded == cflPc = "awaitFinish" => ~streamErrored

\* C27: getInstance returns, for a name, the instance its first call for that
\* name created with that call's config, unchanged by later calls, and
\* different names have different instances.
GetInstanceIsPerName ==
  /\ \A n \in Names :
       firstConfig[n] # "none" =>
         /\ instance[n] # Undefined
         /\ instance[n].config = firstConfig[n]
  /\ lastCall # NoCall => lastCall.result = instance[lastCall.name]
  /\ \A n, m \in Names :
       (n # m /\ instance[n] # Undefined /\ instance[m] # Undefined)
         => instance[n].id # instance[m].id

FlushFailureReleasesHandler ==
  mode = "async-queue" =>
    /\ isFlushing <=> Cardinality(FlushWritesInFlight) = 1
    /\ ~thrown
    /\ flushLoop = "flushing" =>
         \E i \in FlushWritesInFlight : streamQ[i].owner = "loop"
    /\ (~isShuttingDown /\ ~isFlushing /\ Len(logQueue) > 0) =>
         (flushLoop = "delay" /\ CanFlush(Snap))

\* A batch write has failed; the records enqueued after the failure (its error
\* reports) were taken by a later flush, which needed the flag to be clear, and
\* the loop is waiting for its next turn.
FlushFailureWitness ==
  /\ mode = "async-queue" /\ streamErrored
  /\ flushLoop = "delay" /\ ~isShuttingDown
  /\ Len(payloads) >= 2 /\ ERR \in Range(payloads[Len(payloads)])

\* Batches whose write has failed: every batch flushQueue built, less the one
\* in flight and those on file (each batch on file ends with its newline).
FailedFlushes ==
  Len(payloads) - Cardinality(FlushWritesInFlight)
    - Len(SelectSeq(fileBytes, LAMBDA r : r = NL))

\* C30: in async-queue mode the records of a batch are never put back in the
\* queue or written again: a record waiting in the queue is in no batch and
\* was enqueued after every record of every batch, no record is in two
\* batches, and each failed batch write was reported to the error callback.
FailedBatchIsLostButReported ==
  mode = "async-queue" =>
    /\ \A i \in 1..Len(payloads) : \A k \in 1..Len(payloads[i]) :
         payloads[i][k] > 0 =>
           /\ \A q \in 1..Len(logQueue) :
                logQueue[q] > 0 => logQueue[q] > payloads[i][k]
           /\ \A j \in 1..Len(payloads) : \A l \in 1..Len(payloads[j]) :
                payloads[j][l] = payloads[i][k] => (j = i /\ l = k)
    /\ errorReports >= 2 * FailedFlushes

\* A batch write has failed and a record logged since then waits in the queue.
FailedBatchWitness ==
  /\ mode = "async-queue" /\ FailedFlushes >= 1
  /\ \E q \in 1..Len(logQueue) : logQueue[q] > 0

\* The messages a caller may hand to the handler
Messages == (1..(MaxLogs + 1)) \cup {ERR}

\* C31: while isShuttingDown or isClosed is set, enqueueLog changes nothing
\* (the queue keeps its records and no flush starts); once isClosed is set,
\* FileLogHandler.log changes nothing in any mode.
ClosedHandlerIgnoresLog ==
  /\ (isShuttingDown \/ fhIsClosed) =>
       \A m \in Messages : EnqueueLog(Snap, m) = Snap
  /\ fhIsClosed => \A m \in Messages : HandlerLog(Snap, m) = Snap

\* The handler is shutting down with records still queued, and a log call
\* that passed the file gate during the shutdown was not accepted.
ClosedHandlerWitness ==
  /\ mode = "async-queue" /\ isShuttingDown /\ ~fhIsClosed /\ fileLogHandler
  /\ Len(logQueue) > 0 /\ ~isFlushing
  /\ \E i \in 1..Len(gated) : gated[i] \notin Range(accepted)

\* C32: in async-queue mode with no flush in progress, the enqueueLog call
\* that brings the queue to queueBatchSize records starts one flush: one more
\* batch and one more write, holding the queued records and the new one in
\* enqueue order with the batch's newline, and the queue is empty afterwards.
BatchSizeStartsOneFlush ==
  [][(/\ mode = "async-queue" /\ ~isFlushing
      /\ Len(logQueue) = QueueBatchSize - 1
      /\ Len(accepted') = Len(accepted) + 1)
     => LET logData == JoinBatch(Append(logQueue, accepted'[Len(accepted')])) IN
        /\ logQueue' = << >>
        /\ isFlushing'
        /\ payloads' = Append(payloads, logData)
        /\ Len(streamQ') = Len(streamQ) + 1
        /\ streamQ'[Len(streamQ')].data = logData
        /\ streamQ'[Len(streamQ')].origin = "flush"]_vars

\* The flush an enqueueLog call started at the batch size is in flight, with
\* its queueBatchSize records, and nothing has been enqueued since.
BatchSizeFlushWitness ==
  /\ mode = "async-queue" /\ isFlushing /\ logQueue = << >>
  /\ Len(payloads) = 1 /\ Len(payloads[1]) = QueueBatchSize + 1
  /\ \E i \in FlushWritesInFlight : streamQ[i].owner = "enqueue"

\* C33: in async-queue mode with fair timers and write completions, every
\* record the handler has accepted is eventually in the file, again and
\* again as records arrive, unless the handler starts shutting down, the
\* stream fails or the process exits first.
AcceptedRecordsEventuallyWritten ==
  []<>(\/ \A i \in 1..Len(accepted) : accepted[i] \in Range(fileBytes)
       \/ isShuttingDown \/ streamErrored \/ exited)

\* A single record, fewer than the batch size, was flushed by the loop (no
\* flushFileLogs call, no shutdown) and has reached the file.
LoopFlushWitness ==
  /\ mode = "async-queue" /\ ~isShuttingDown /\ fflPc = "none" /\ ~exited
  /\ Len(payloads) >= 1 /\ Len(payloads[1]) < QueueBatchSize + 1
  /\ payloads[1][1] \in Range(fileBytes)

\* writeToFileAsync calls that have started and not finished: waiting for the
\* rotation's rename or unlink, or with their chunk handed to the stream
AsyncWritesInFlight ==
  Len(asyncWrites) + Cardinality({ i \in 1..Len(streamQ) : streamQ[i].origin = "async" })

\* C34: in async mode at most one write of the store is in flight at any
\* time: a log call's rotation check and stream write start only after the
\* previous asynchronous write has completed.
AtMostOneAsyncWriteInFlight ==
  mode = "async" => AsyncWritesInFlight <= 1

\* closeWorker() has returned: nothing of it is waiting, the worker thread
\* has stopped and this.worker is null
CloseWorkerResolved ==
  /\ cwCalls > 0 /\ ~worker /\ ~workerAlive /\ ~cwRejected
  /\ cwReady = 0 /\ cwWaitDrain = 0 /\ cwWaitClosed = 0 /\ cwTerminating = 0

\* A file operation of the worker's store that this model's cap on error
\* reports keeps from settling: the worker cannot acknowledge its payload
StoreBlocked ==
  /\ streamQ # << >> \/ asyncWrites # << >>
  /\ ~WriteCompleteEnabled /\ ~RenameCompleteEnabled /\ ~UnlinkCompleteEnabled

\* The steps of closeWorker() in order: "close" is posted only after the
\* records sent before the call were acknowledged; terminate() is called
\* only after "close" was posted and "closed" received; the handle is
\* cleared only after the thread has stopped.
CloseWorkerOrder ==
  /\ closePosts > 0 => (cwCalls > 0 /\ sentBeforeClose \subseteq ackedAtMain)
  /\ cwTerminating > 0 => (closePosts > 0 /\ closedReceived > 0)
  /\ ~worker => (~workerAlive /\ closePosts > 0 /\ closedReceived > 0)

TerminateOnlyWhenDrained ==
  [][/\ closePosts > 0 => sent' = sent
     /\ cwTerminating' > cwTerminating => pendingMessages' = 0]_vars

\* C37: in every reachable state pendingMessages is the number of payloads
\* logToWorker has posted less the number of "processed" messages received,
\* and it is never negative.
PendingIsPostedMinusProcessed ==
  /\ pendingMessages = Len(sent) - Cardinality(ackedAtMain)
  /\ pendingMessages >= 0

\* Every payload the model allows was posted, one was acknowledged and one is
\* still pending, with closeWorker() under way.
PendingCountWitness ==
  /\ mode = "worker" /\ Len(sent) = MaxWorkerLogs
  /\ Cardinality(ackedAtMain) >= 1 /\ pendingMessages >= 1 /\ cwCalls > 0

\* C38: in worker mode a record is posted to the worker only if it passed
\* the file gate (level at least outputFileLogLevel and condition not false):
\* every payload posted is one of the records the file gate let through.
WorkerReceivesOnlyFileGated ==
  mode = "worker" => \A i \in 1..Len(sent) : sent[i] \in Range(gated)

\* C39: a store constructed with the header enabled (every mode but worker)
\* counts the header: in the state the constructor leaves, before any record
\* is logged, currentFileSize is the size of the file it found plus the
\* length of the header.
HeaderCountsTowardCachedSize ==
  (mode # "worker" /\ nextId = 1 /\ rotations = 0 /\ fileBytes = << HDR >>)
    => currentFileSize = existingBytes + Len(<< HDR >>)

\* C40: in async-queue mode the queue never holds more than queueBatchSize
\* records, whatever the interleaving of enqueueLog calls with flushes in
\* flight.
QueueNeverExceedsBatchSize ==
  mode = "async-queue" => Len(logQueue) <= QueueBatchSize

====
